---- MODULE Spec2Model ----
(***************************************************************************)
(* Block state codec, placement, power queries and update propagation of   *)
(* src/blocks.rs, as a state machine.                                      *)
(*                                                                         *)
(*   SpecCodec : the pure functions (from_block_state, get_id,             *)
(*               get_block_for_placement, BlockPos::offset), one call per  *)
(*               behaviour, inputs drawn by Init.                          *)
(*   SpecGrid  : one call of update or is_powered on a row of cells of     *)
(*               every kind, at elevation 0 or 1.                          *)
(*   SpecLine  : update(torch, force) on a torch and a line of repeaters.  *)
(*   SpecLoop  : update(pos, force) on repeaters and comparators round a   *)
(*               square.                                                   *)
(*   SpecUse   : successive on_use calls on one stored block.              *)
(* Horizontal coordinates stay away from the limits of i32 in the engine   *)
(* specifications; the vertical floor (y = 0) is part of SpecGrid.         *)
(***************************************************************************)
EXTENDS Integers, Sequences, FiniteSets, TLC

VARIABLES
    overflow_checks, \* the build panics on integer overflow (TRUE) or wraps
    cin,        \* SpecCodec: the call and its arguments
    cout,       \* SpecCodec: the outcomes of the calls made so far
    errlog,     \* messages written by error!
    store,      \* the plot: the blocks stored at the positions that hold one
    store0,     \* the plot before the first call
    todo,       \* the call the caller of the engine is about to make
    stack,      \* the call stack of update / is_powered, innermost frame last
    outcome,    \* how the outermost call ended, or Running
    done_frame, \* the frame that finished last (returned or unwound)
    visits,     \* per position, how often update was invoked on it
    uses        \* the results of the on_use calls made so far

codec_vars == <<cin, cout, errlog>>

engine_vars == <<store, store0, todo, stack, outcome, done_frame, visits>>

vars == <<overflow_checks, cin, cout, errlog, store, store0, todo, stack,
          outcome, done_frame, visits, uses>>

(***************************************************************************)
(* Integer widths.  A u32 is kept as two 16-bit limbs, since 2^32 - 1 has  *)
(* to be a value of the model (the wrapped result of 0 - 1).  An i32 is an *)
(* integer between I32Min and I32Max.                                      *)
(***************************************************************************)
Limb == 2^16

U32(n) == [hi |-> n \div Limb, lo |-> n % Limb]

U32Max == [hi |-> Limb - 1, lo |-> Limb - 1]

U32Zero == [hi |-> 0, lo |-> 0]

\* u32 subtraction of one, wrapping modulo 2^32
U32Dec(v) ==
    IF v.lo > 0 THEN [v EXCEPT !.lo = v.lo - 1]
    ELSE IF v.hi > 0 THEN [hi |-> v.hi - 1, lo |-> Limb - 1]
    ELSE U32Max

\* u32 addition of one, wrapping modulo 2^32
U32Inc(v) ==
    IF v.lo < Limb - 1 THEN [v EXCEPT !.lo = v.lo + 1]
    ELSE IF v.hi < Limb - 1 THEN [hi |-> v.hi + 1, lo |-> 0]
    ELSE U32Zero

I32Max == 2147483647

I32Min == -I32Max - 1

I32Dec(v) == IF v = I32Min THEN I32Max ELSE v - 1

I32Inc(v) == IF v = I32Max THEN I32Min ELSE v + 1

(***************************************************************************)
(* Geometry                                                                *)
(***************************************************************************)
BlockFace == {"Bottom", "Top", "North", "South", "West", "East"}

BlockDirection == {"North", "South", "East", "West"}

BlockPos(x, y, z) == [x |-> x, y |-> y, z |-> z]

\* BlockPos::offset with wrapping arithmetic (a build without overflow checks)
offset(pos, face) ==
    CASE face = "Bottom" -> BlockPos(pos.x, U32Dec(pos.y), pos.z)
      [] face = "Top"    -> BlockPos(pos.x, U32Inc(pos.y), pos.z)
      [] face = "North"  -> BlockPos(pos.x, pos.y, I32Dec(pos.z))
      [] face = "South"  -> BlockPos(pos.x, pos.y, I32Inc(pos.z))
      [] face = "West"   -> BlockPos(I32Dec(pos.x), pos.y, pos.z)
      [] face = "East"   -> BlockPos(I32Inc(pos.x), pos.y, pos.z)

\* the arithmetic of BlockPos::offset overflows: a build with overflow checks
\* panics ("attempt to subtract with overflow"), one without wraps
offsetOverflows(pos, face) ==
    CASE face = "Bottom" -> pos.y = U32Zero
      [] face = "Top"    -> pos.y = U32Max
      [] face = "North"  -> pos.z = I32Min
      [] face = "South"  -> pos.z = I32Max
      [] face = "West"   -> pos.x = I32Min
      [] face = "East"   -> pos.x = I32Max

opposite(d) ==
    CASE d = "North" -> "South"
      [] d = "South" -> "North"
      [] d = "East"  -> "West"
      [] d = "West"  -> "East"

block_face(d) ==
    CASE d = "North" -> "South"
      [] d = "South" -> "North"
      [] d = "East"  -> "West"
      [] d = "West"  -> "East"

(***************************************************************************)
(* Ordinals.  from_id answers Invalid where the code panics.               *)
(***************************************************************************)
Invalid == "Invalid"

BlockDirection_from_id(id) ==
    CASE id = 0 -> "North"
      [] id = 1 -> "South"
      [] id = 2 -> "West"
      [] id = 3 -> "East"
      [] OTHER  -> Invalid

BlockDirection_get_id(d) ==
    CASE d = "North" -> 0
      [] d = "South" -> 1
      [] d = "West"  -> 2
      [] d = "East"  -> 3

RedstoneWireSide == {"Up", "Side", "None"}

RedstoneWireSide_from_id(id) ==
    CASE id = 0 -> "Up"
      [] id = 1 -> "Side"
      [] id = 2 -> "None"
      [] OTHER  -> Invalid

RedstoneWireSide_get_id(s) ==
    CASE s = "Up"   -> 0
      [] s = "Side" -> 1
      [] s = "None" -> 2

ComparatorMode == {"Compare", "Subtract"}

ComparatorMode_from_id(id) ==
    CASE id = 0 -> "Compare"
      [] id = 1 -> "Subtract"
      [] OTHER  -> Invalid

ComparatorMode_get_id(m) ==
    CASE m = "Compare"  -> 0
      [] m = "Subtract" -> 1

flip(m) ==
    CASE m = "Subtract" -> "Compare"
      [] m = "Compare"  -> "Subtract"

\* `!b as u32`
NotAsU32(b) == IF b THEN 0 ELSE 1

(***************************************************************************)
(* Block: the tagged union                                                 *)
(***************************************************************************)
Air == [kind |-> "Air"]

RedstoneWire(north, south, east, west, power) ==
    [kind |-> "RedstoneWire", north |-> north, south |-> south,
     east |-> east, west |-> west, power |-> power]

RedstoneRepeater(delay, facing, locked, powered) ==
    [kind |-> "RedstoneRepeater", delay |-> delay, facing |-> facing,
     locked |-> locked, powered |-> powered]

RedstoneComparator(facing, mode, powered) ==
    [kind |-> "RedstoneComparator", facing |-> facing, mode |-> mode,
     powered |-> powered]

RedstoneTorch(lit) == [kind |-> "RedstoneTorch", lit |-> lit]

RedstoneWallTorch(lit, facing) ==
    [kind |-> "RedstoneWallTorch", lit |-> lit, facing |-> facing]

RedstoneLamp(lit) == [kind |-> "RedstoneLamp", lit |-> lit]

Solid(id) == [kind |-> "Solid", id |-> id]

Transparent(id) == [kind |-> "Transparent", id |-> id]

(***************************************************************************)
(* State codec                                                             *)
(***************************************************************************)
\* a decode step met an ordinal its from_id panics on
Panic(msg) == [kind |-> "panic", msg |-> msg]

\* arm 2056..=3351, n = id - 2056
DecodeWire(n) ==
    LET west  == RedstoneWireSide_from_id(n % 3)
        south == RedstoneWireSide_from_id((n % 9) \div 3)
        power == (n % 144) \div 9
        north == RedstoneWireSide_from_id((n % 432) \div 144)
        east  == RedstoneWireSide_from_id(n \div 432)
    IN  IF Invalid \in {west, south, north, east}
        THEN Panic("Invalid RedstoneWireSide")
        ELSE RedstoneWire(north, south, east, west, power % 256)

\* arm 3887..=3894, n = id - 3887
DecodeWallTorch(n) ==
    LET lit    == (n % 2) = 0
        facing == BlockDirection_from_id(n \div 2)
    IN  IF facing = Invalid THEN Panic("Invalid BlockDirection")
        ELSE RedstoneWallTorch(lit, facing)

\* DecodeRepeater with the locked bit read as stored (1 meaning locked)
DecodeRepeaterLockedAsStored(n) ==
    LET powered == (n % 2) = 0
        locked  == ((n \div 2) % 2) = 1
        facing  == BlockDirection_from_id((n \div 4) % 4)
        delay   == ((n \div 16) % 256) + 1
    IN  IF facing = Invalid THEN Panic("Invalid BlockDirection")
        ELSE RedstoneRepeater(delay, facing, locked, powered)

\* arm 4017..=4080, n = id - 4017
DecodeRepeater(n) ==
    LET powered == (n % 2) = 0
        locked  == ((n \div 2) % 2) = 0
        facing  == BlockDirection_from_id((n \div 4) % 4)
        delay   == ((n \div 16) % 256) + 1
    IN  IF facing = Invalid THEN Panic("Invalid BlockDirection")
        ELSE RedstoneRepeater(delay, facing, locked, powered)

\* arm 6142..=6157, n = id - 6142
DecodeComparator(n) ==
    LET powered == (n % 2) = 0
        mode    == ComparatorMode_from_id((n \div 2) % 2)
        facing  == BlockDirection_from_id(n \div 4)
    IN  IF mode = Invalid THEN Panic("Invalid ComparatorMode")
        ELSE IF facing = Invalid THEN Panic("Invalid BlockDirection")
        ELSE RedstoneComparator(facing, mode, powered)

\* Block::from_block_state: id is a u32
from_block_state(id) ==
    IF id.hi # 0 THEN Solid(id)
    ELSE LET n == id.lo IN
        CASE n = 0                  -> Air
          [] n \in 2056..3351       -> DecodeWire(n - 2056)
          [] n = 3885               -> RedstoneTorch(TRUE)
          [] n = 3886               -> RedstoneTorch(FALSE)
          [] n \in 3887..3894       -> DecodeWallTorch(n - 3887)
          [] n \in 4017..4080       -> DecodeRepeater(n - 4017)
          [] n = 5140               -> RedstoneLamp(TRUE)
          [] n = 5141               -> RedstoneLamp(FALSE)
          [] n \in 6142..6157       -> DecodeComparator(n - 6142)
          [] OTHER                  -> Solid(id)

\* EncodeWire with the radices of north and east exchanged
EncodeWireNorthEastSwapped(wire) ==
    RedstoneWireSide_get_id(wire.north) * 432
        + RedstoneWireSide_get_id(wire.east) * 144
        + wire.power * 9
        + RedstoneWireSide_get_id(wire.south) * 3
        + RedstoneWireSide_get_id(wire.west)
        + 2056

EncodeWire(wire) ==
    RedstoneWireSide_get_id(wire.east) * 432
        + RedstoneWireSide_get_id(wire.north) * 144
        + wire.power * 9
        + RedstoneWireSide_get_id(wire.south) * 3
        + RedstoneWireSide_get_id(wire.west)
        + 2056

EncodeWallTorch(b) ==
    (BlockDirection_get_id(b.facing) * 2) + NotAsU32(b.lit) + 3887

EncodeRepeater(repeater) ==
    (repeater.delay - 1) * 16
        + BlockDirection_get_id(repeater.facing) * 4
        + NotAsU32(repeater.locked) * 2
        + NotAsU32(repeater.powered)
        + 4017

EncodeComparator(comparator) ==
    BlockDirection_get_id(comparator.facing) * 4
        + ComparatorMode_get_id(comparator.mode) * 2
        + NotAsU32(comparator.powered)
        + 6142

\* Block::get_id: the result is a u32
get_id(b) ==
    CASE b.kind = "Air"                -> U32(0)
      [] b.kind = "RedstoneWire"       -> U32(EncodeWire(b))
      [] b.kind = "RedstoneTorch"      -> IF b.lit THEN U32(3885) ELSE U32(3886)
      [] b.kind = "RedstoneWallTorch"  -> U32(EncodeWallTorch(b))
      [] b.kind = "RedstoneRepeater"   -> U32(EncodeRepeater(b))
      [] b.kind = "RedstoneLamp"       -> IF b.lit THEN U32(5140) ELSE U32(5141)
      [] b.kind = "RedstoneComparator" -> U32(EncodeComparator(b))
      [] b.kind = "Solid"              -> b.id
      [] b.kind = "Transparent"        -> b.id

\* the known item ids of get_block_for_placement
KnownItem(item_id) ==
    /\ item_id.hi = 0
    /\ item_id.lo \in {64, 68} \cup (82..97) \cup {173} \cup (413..428) \cup {513, 514}

\* the torch arm (item 173) of get_block_for_placement
PlaceTorch(face) ==
    CASE face = "Top"    -> RedstoneTorch(TRUE)
      [] face = "Bottom" -> RedstoneTorch(TRUE)
      [] face = "North"  -> RedstoneWallTorch(TRUE, "North")
      [] face = "South"  -> RedstoneWallTorch(TRUE, "South")
      [] face = "East"   -> RedstoneWallTorch(TRUE, "East")
      [] face = "West"   -> RedstoneWallTorch(TRUE, "West")

\* Block::get_block_for_placement: the block returned
get_block_for_placement(item_id, context) ==
    IF item_id.hi # 0 THEN Solid(U32(245))
    ELSE LET n == item_id.lo IN
        CASE n = 64           -> Transparent(U32(230))
          [] n = 68           -> Solid(U32(245))
          [] n \in 82..97     -> Solid(U32(n + 1301))
          [] n = 173          -> PlaceTorch(context.block_face)
          [] n \in 413..428   -> Solid(U32(n + 8489))
          [] n = 513          ->
                RedstoneRepeater(1, opposite(context.player_direction), FALSE, FALSE)
          [] n = 514          ->
                RedstoneComparator(opposite(context.player_direction), "Compare", FALSE)
          [] OTHER            -> Solid(U32(245))

\* Block::get_block_for_placement: what the call writes with error!
PlacementLog(item_id) ==
    IF KnownItem(item_id) THEN <<>>
    ELSE <<"Tried to place block which wasnt a block!">>

(***************************************************************************)
(* Outcomes of a call: a returned value, or a panic.  No function of the   *)
(* module returns an error value (none has a Result type).                 *)
(***************************************************************************)
Returned(v) == [status |-> "returned", value |-> v]

Panicked(msg) == [status |-> "panicked", msg |-> msg]

Outcome(v) == IF v.kind = "panic" THEN Panicked(v.msg) ELSE Returned(v)

\* a call of BlockPos::offset under the build's overflow behaviour
OffsetOutcome(pos, face, checks) ==
    IF offsetOverflows(pos, face) /\ checks
    THEN Panicked("arithmetic overflow")
    ELSE Returned(offset(pos, face))

(***************************************************************************)
(* SpecCodec: one call of a pure function, and for the codec the opposite  *)
(* conversion applied to its result.                                       *)
(***************************************************************************)
MaxLowId == 6200

MaxItem == 520

HighLimbs == {1, Limb - 1}

Ids ==
    {[hi |-> 0, lo |-> n] : n \in 0..MaxLowId}
        \cup {[hi |-> h, lo |-> l] : h \in HighLimbs, l \in {0, 3885, 4058, Limb - 1}}
        \cup {[hi |-> 0, lo |-> Limb - 1]}

Wires ==
    {RedstoneWire(n, s, e, w, p) :
        n \in RedstoneWireSide, s \in RedstoneWireSide, e \in RedstoneWireSide,
        w \in RedstoneWireSide, p \in 0..15}

Repeaters ==
    {RedstoneRepeater(d, f, l, p) :
        d \in 1..4, f \in BlockDirection, l \in BOOLEAN, p \in BOOLEAN}

Comparators ==
    {RedstoneComparator(f, m, p) :
        f \in BlockDirection, m \in ComparatorMode, p \in BOOLEAN}

Torches == {RedstoneTorch(l) : l \in BOOLEAN}

WallTorches == {RedstoneWallTorch(l, f) : l \in BOOLEAN, f \in BlockDirection}

Lamps == {RedstoneLamp(l) : l \in BOOLEAN}

\* the values of the kinds the codec models, fields in range
ModeledBlocks ==
    {Air} \cup Wires \cup Torches \cup WallTorches \cup Repeaters \cup Lamps
          \cup Comparators

\* the passthrough values Block::from_name and the placement produce
OpaqueBlocks == {Solid(U32(245)), Solid(U32(4481)), Transparent(U32(230))}

Items ==
    {[hi |-> 0, lo |-> n] : n \in 0..MaxItem} \cup {[hi |-> h, lo |-> 173] : h \in HighLimbs}

Contexts ==
    {[block_face |-> f, player_direction |-> d] : f \in BlockFace, d \in BlockDirection}

EdgeI32 == {I32Min, -1, 0, 1, I32Max}

EdgeU32 == {U32Zero, U32(1), U32(2), U32Max}

EdgePositions == {BlockPos(x, y, z) : x \in EdgeI32, y \in EdgeU32, z \in EdgeI32}

CodecCalls ==
    {[op |-> "decode", id |-> i] : i \in Ids}
        \cup {[op |-> "encode", block |-> b] : b \in ModeledBlocks \cup OpaqueBlocks}
        \cup {[op |-> "place", item_id |-> i, context |-> c] : i \in Items, c \in Contexts}
        \cup {[op |-> "offset", pos |-> p, face |-> f] : p \in EdgePositions, f \in BlockFace}

NoFrame == [fn |-> "none"]

Running == [status |-> "running"]

\* the engine's variables in a specification that makes no engine call
EngineIdle ==
    /\ store = <<>>
    /\ store0 = <<>>
    /\ todo = <<>>
    /\ stack = <<>>
    /\ outcome = Running
    /\ done_frame = NoFrame
    /\ visits = <<>>

InitCodec ==
    /\ overflow_checks \in BOOLEAN
    /\ cin \in CodecCalls
    /\ cout = <<>>
    /\ errlog = <<>>
    /\ EngineIdle
    /\ uses = <<>>

\* from_block_state on the id given, or on the id get_id has just returned
Decode ==
    /\ \/ /\ cin.op = "decode"
          /\ cout = <<>>
          /\ cout' = <<Outcome(from_block_state(cin.id))>>
       \/ /\ cin.op = "encode"
          /\ Len(cout) = 1
          /\ cout' = Append(cout, Outcome(from_block_state(cout[1].value)))
    /\ UNCHANGED <<overflow_checks, cin, errlog, engine_vars, uses>>

\* get_id on the block given, or on the block from_block_state has just returned
Encode ==
    /\ \/ /\ cin.op = "encode"
          /\ cout = <<>>
          /\ cout' = <<Returned(get_id(cin.block))>>
       \/ /\ cin.op = "decode"
          /\ Len(cout) = 1
          /\ cout[1].status = "returned"
          /\ cout' = Append(cout, Returned(get_id(cout[1].value)))
    /\ UNCHANGED <<overflow_checks, cin, errlog, engine_vars, uses>>

Place ==
    /\ cin.op = "place"
    /\ cout = <<>>
    /\ cout' = <<Returned(get_block_for_placement(cin.item_id, cin.context))>>
    /\ errlog' = errlog \o PlacementLog(cin.item_id)
    /\ UNCHANGED <<overflow_checks, cin, engine_vars, uses>>

Offset ==
    /\ cin.op = "offset"
    /\ cout = <<>>
    /\ cout' = <<OffsetOutcome(cin.pos, cin.face, overflow_checks)>>
    /\ UNCHANGED <<overflow_checks, cin, errlog, engine_vars, uses>>

NextCodec == Decode \/ Encode \/ Place \/ Offset

SpecCodec == InitCodec /\ [][NextCodec]_vars

(***************************************************************************)
(* Claims about the codec, the placement resolver and offset (SpecCodec)   *)
(***************************************************************************)
\* the identifier range of a modeled kind
KindRange(kind) ==
    CASE kind = "Air"                -> {0}
      [] kind = "RedstoneWire"       -> 2056..3351
      [] kind = "RedstoneTorch"      -> 3885..3886
      [] kind = "RedstoneWallTorch"  -> 3887..3894
      [] kind = "RedstoneRepeater"   -> 4017..4080
      [] kind = "RedstoneLamp"       -> 5140..5141
      [] kind = "RedstoneComparator" -> 6142..6157

\* C4: for every identifier, inside a modeled range or outside all of them,
\* from_block_state returns a block (it meets no invalid ordinal) and get_id
\* of that block is the identifier again.
C4_EncodeDecodeId ==
    cin.op = "decode" =>
        /\ Len(cout) >= 1 => cout[1].status = "returned"
        /\ Len(cout) = 2 => cout[2] = Returned(cin.id)

\* C4 witness: the last wire identifier (east = 2, the top of its radix) and
\* an identifier of the repeater range have been decoded and encoded again.
C4_Witness ==
    /\ cin.op = "decode"
    /\ cin.id \in {U32(3351), U32(4058)}
    /\ Len(cout) = 2
    /\ cout[1].value.kind \in {"RedstoneWire", "RedstoneRepeater"}

\* C5: for every block of a modeled kind with fields in range, get_id lies
\* in the range of the block's kind and from_block_state of it is the block
\* again; repeater{3, West, locked, unpowered} encodes to 4058,
\* comparator{West, Subtract, unpowered} to 6153 and Air to 0.
C5_DecodeEncodeBlock ==
    (cin.op = "encode" /\ cin.block \in ModeledBlocks) =>
        /\ Len(cout) >= 1 =>
            /\ cout[1].value.hi = 0
            /\ cout[1].value.lo \in KindRange(cin.block.kind)
            /\ cin.block = RedstoneRepeater(3, "West", TRUE, FALSE)
                    => cout[1].value = U32(4058)
            /\ cin.block = RedstoneComparator("West", "Subtract", FALSE)
                    => cout[1].value = U32(6153)
            /\ cin.block = Air => cout[1].value = U32(0)
        /\ Len(cout) = 2 => cout[2] = Returned(cin.block)

\* C5 witness: the repeater of repeater_id_test has been encoded to 4058
\* and decoded again.
C5_Witness ==
    /\ cin.op = "encode"
    /\ cin.block = RedstoneRepeater(3, "West", TRUE, FALSE)
    /\ Len(cout) = 2
    /\ cout[1].value = U32(4058)

\* C8: for an item id outside every known item the placement resolver
\* signals an error and returns no block.
C8_UnknownItemIsError ==
    (cin.op = "place" /\ ~KnownItem(cin.item_id) /\ Len(cout) = 1) =>
        cout[1].status # "returned"

\* C9: offset(Bottom) at y = 0 fails, and never yields the position whose y
\* has wrapped to 4294967295.
C9_BottomAtFloorFails ==
    (cin.op = "offset" /\ cin.face = "Bottom" /\ cin.pos.y = U32Zero /\ Len(cout) = 1) =>
        /\ cout[1].status # "returned"
        /\ cout[1] # Returned(BlockPos(cin.pos.x, U32Max, cin.pos.z))

(***************************************************************************)
(* The plot (the store).  plot.rs is not among the sources: get_block and  *)
(* set_block follow the store contract, a sparse position-addressed map    *)
(* that reads Air where nothing is stored and whose set reports whether    *)
(* the stored value changed.                                               *)
(***************************************************************************)
get_block(plot, pos) == IF pos \in DOMAIN plot THEN plot[pos] ELSE Air

\* the boolean set_block returns
set_block_changed(plot, pos, block) == get_block(plot, pos) # block

\* the plot after set_block
set_block(plot, pos, block) ==
    IF ~set_block_changed(plot, pos, block) THEN plot
    ELSE [q \in DOMAIN plot \cup {pos} |-> IF q = pos THEN block ELSE plot[q]]

(***************************************************************************)
(* Power queries                                                           *)
(***************************************************************************)
LateralFaces == {"North", "South", "East", "West"}

\* RedstoneWire::is_powering
wire_is_powering(wire, face) ==
    LET is_facing ==
            CASE face = "North" -> wire.north # "None"
              [] face = "South" -> wire.south # "None"
              [] face = "East"  -> wire.east # "None"
              [] face = "West"  -> wire.west # "None"
              [] OTHER          -> FALSE
    IN  is_facing /\ wire.power > 0

\* Block::is_powering: the block read is the one stored at pos
is_powering(plot, pos, face) ==
    LET block == get_block(plot, pos) IN
    IF face \in LateralFaces
    THEN CASE block.kind = "RedstoneTorch"      -> block.lit
           [] block.kind = "RedstoneWallTorch"  ->
                block.lit /\ block_face(block.facing) # face
           [] block.kind = "RedstoneRepeater"   ->
                block.powered /\ block_face(block.facing) = face
           [] block.kind = "RedstoneWire"       -> wire_is_powering(block, face)
           [] block.kind = "RedstoneComparator" ->
                block.powered /\ block_face(block.facing) = face
           [] OTHER                             -> FALSE
    ELSE FALSE

(***************************************************************************)
(* The call stack.  update and is_powered are recursive and need not       *)
(* return, so a call is a frame and each action runs the innermost frame   *)
(* up to its next call or its return.  A frame holds                       *)
(*   fn, self, pos, force : the function and its arguments                 *)
(*   pc      : "begin", "powered" (update: is_powered has returned r),     *)
(*             "neighbours" (the idx-th neighbour call is next),           *)
(*             "resume" (is_powered: a neighbour call has returned r)      *)
(*   nbrs    : the six offsets, in the order the code computes them        *)
(*   changed : update: what set_block returned                             *)
(*   called  : the calls the frame has made on its neighbours              *)
(*   sub     : is_powered: a neighbour call has returned true              *)
(***************************************************************************)
Frame(fn, self, pos, force) ==
    [fn |-> fn, self |-> self, pos |-> pos, force |-> force, pc |-> "begin",
     r |-> FALSE, nbrs |-> <<>>, idx |-> 0, changed |-> FALSE, set |-> FALSE,
     called |-> <<>>, sub |-> FALSE]

\* the order of the offsets and of the neighbour calls
FaceOrder == <<"North", "South", "East", "West", "Top", "Bottom">>

SixOverflow(pos) == \E i \in 1..6 : offsetOverflows(pos, FaceOrder[i])

SixOffsets(pos) == [i \in 1..6 |-> offset(pos, FaceOrder[i])]

\* the deepest call stack the model follows; a call beyond it ends the
\* run as a stack overflow
MaxDepth == 8

StackOverflow == [status |-> "stack overflow"]

Top == stack[Len(stack)]

Callers == SubSeq(stack, 1, Len(stack) - 1)

Bump(count, pos) ==
    [q \in DOMAIN count \cup {pos} |->
        IF q = pos THEN (IF pos \in DOMAIN count THEN count[pos] + 1 ELSE 1)
        ELSE count[q]]

\* the innermost frame panics: the stack unwinds
Abort(frame, how) ==
    /\ stack' = <<>>
    /\ outcome' = how
    /\ done_frame' = frame

\* the innermost frame, now `frame`, calls `callee`
Call(frame, callee) ==
    IF Len(stack) >= MaxDepth
    THEN Abort(frame, StackOverflow)
    ELSE /\ stack' = Append(Append(Callers, frame), callee)
         /\ UNCHANGED <<outcome, done_frame>>

\* the innermost frame returns v to its caller
Return(frame, v) ==
    /\ done_frame' = frame
    /\ IF Len(stack) = 1
       THEN /\ stack' = <<>>
            /\ outcome' = Returned(v)
       ELSE LET caller == stack[Len(stack) - 1] IN
            /\ stack' = Append(SubSeq(stack, 1, Len(stack) - 2),
                               [caller EXCEPT !.r = v,
                                   !.sub = caller.sub \/ (frame.fn = "is_powered" /\ v),
                                   !.pc = IF caller.fn = "update" /\ frame.fn = "is_powered"
                                          THEN "powered"
                                          ELSE IF caller.fn = "is_powered" THEN "resume"
                                          ELSE caller.pc])
            /\ UNCHANGED outcome

(***************************************************************************)
(* Block::update                                                           *)
(***************************************************************************)
\* lines 471-476: the face behind a repeater
input_face(facing) ==
    CASE facing = "North" -> "South"
      [] facing = "South" -> "North"
      [] facing = "East"  -> "West"
      [] facing = "West"  -> "East"

\* Propagates with set_block's answer taken to be true always
PropagatesAlways(changed, force) == TRUE

\* line 496: the cascade goes on to the neighbours
Propagates(changed, force) == changed \/ force

\* lines 494-503: set_block, then the six offsets when the cascade goes on
Commit(frame, new_block) ==
    LET changed == set_block_changed(store, frame.pos, new_block)
        f == [frame EXCEPT !.changed = changed, !.set = TRUE]
    IN  /\ store' = set_block(store, frame.pos, new_block)
        /\ IF Propagates(changed, frame.force)
           THEN IF SixOverflow(frame.pos) /\ overflow_checks
                THEN Abort(f, Panicked("arithmetic overflow"))
                ELSE /\ stack' = Append(Callers,
                            [f EXCEPT !.pc = "neighbours", !.idx = 1,
                                      !.nbrs = SixOffsets(frame.pos)])
                     /\ UNCHANGED <<outcome, done_frame>>
           ELSE Return(f, TRUE)

\* RepeaterPowered without the direct power of the input block
RepeaterPoweredStrongOnly(r, plot, input_pos, facing) == r

\* lines 481-482, once is_powered has returned r
RepeaterPowered(r, plot, input_pos, facing) ==
    r \/ is_powering(plot, input_pos, block_face(facing))

UpdateStep ==
    /\ stack # <<>>
    /\ Top.fn = "update"
    /\ LET frame == Top
           block == get_block(store, frame.pos)
       IN  CASE frame.pc = "begin" ->
                  /\ visits' = Bump(visits, frame.pos)
                  /\ IF block.kind = "RedstoneRepeater"
                     THEN LET face == input_face(block.facing) IN
                          /\ store' = store
                          /\ IF offsetOverflows(frame.pos, face) /\ overflow_checks
                             THEN Abort(frame, Panicked("arithmetic overflow"))
                             ELSE LET input_pos == offset(frame.pos, face) IN
                                  Call([frame EXCEPT !.pc = "powered"],
                                       Frame("is_powered", get_block(store, input_pos),
                                             input_pos, FALSE))
                     ELSE Commit(frame, block)
             [] frame.pc = "powered" ->
                  /\ visits' = visits
                  /\ LET input_pos == offset(frame.pos, input_face(block.facing)) IN
                     Commit(frame,
                            [block EXCEPT !.powered =
                                RepeaterPowered(frame.r, store, input_pos, block.facing)])
             [] frame.pc = "neighbours" ->
                  /\ UNCHANGED <<store, visits>>
                  /\ IF frame.idx > 6
                     THEN Return(frame, TRUE)
                     ELSE LET n == frame.nbrs[frame.idx] IN
                          Call([frame EXCEPT !.idx = frame.idx + 1,
                                    !.called = Append(frame.called,
                                        [pos |-> n, force |-> FALSE])],
                               Frame("update", get_block(store, n), n, FALSE))
    /\ UNCHANGED <<overflow_checks, codec_vars, store0, todo, uses>>

(***************************************************************************)
(* Block::is_powered                                                       *)
(***************************************************************************)
\* line 452: the kinds whose arm asks the neighbours
AsksNeighbours(self) == self.kind \in {"Solid", "RedstoneLamp"}

IsPoweredStep ==
    /\ stack # <<>>
    /\ Top.fn = "is_powered"
    /\ LET frame == Top IN
       CASE frame.pc = "begin" ->
              IF SixOverflow(frame.pos) /\ overflow_checks
              THEN Abort(frame, Panicked("arithmetic overflow"))
              ELSE IF AsksNeighbours(frame.self)
              THEN /\ stack' = Append(Callers,
                          [frame EXCEPT !.pc = "neighbours", !.idx = 1,
                                        !.nbrs = SixOffsets(frame.pos)])
                   /\ UNCHANGED <<outcome, done_frame>>
              ELSE Return(frame, FALSE)
         [] frame.pc = "neighbours" ->
              LET n == frame.nbrs[frame.idx] IN
              Call([frame EXCEPT !.called = Append(frame.called,
                                      [pos |-> n, force |-> FALSE])],
                   Frame("is_powered", get_block(store, n), n, FALSE))
         [] frame.pc = "resume" ->
              IF frame.r THEN Return(frame, TRUE)
              ELSE IF frame.idx = 6 THEN Return(frame, FALSE)
              ELSE /\ stack' = Append(Callers,
                          [frame EXCEPT !.pc = "neighbours", !.idx = frame.idx + 1])
                   /\ UNCHANGED <<outcome, done_frame>>
    /\ UNCHANGED <<overflow_checks, codec_vars, store, store0, todo, visits, uses>>

(***************************************************************************)
(* The caller of the engine makes the call `todo` holds.                   *)
(***************************************************************************)
UpdateCall(pos, force) == [fn |-> "update", pos |-> pos, force |-> force]

IsPoweredCall(pos) == [fn |-> "is_powered", pos |-> pos, force |-> FALSE]

EngineCall ==
    /\ todo # <<>>
    /\ stack = <<>>
    /\ outcome = Running
    /\ stack' = <<Frame(todo[1].fn, get_block(store, todo[1].pos), todo[1].pos,
                        todo[1].force)>>
    /\ todo' = Tail(todo)
    /\ UNCHANGED <<overflow_checks, codec_vars, store, store0, outcome,
                   done_frame, visits, uses>>

NextEngine == EngineCall \/ UpdateStep \/ IsPoweredStep

\* the engine before the call: a build among `builds`, plot `plot`, call `call`
InitEngine(builds, plot, call) ==
    /\ overflow_checks \in builds
    /\ cin = [op |-> "none"]
    /\ cout = <<>>
    /\ errlog = <<>>
    /\ store = plot
    /\ store0 = plot
    /\ todo = <<call>>
    /\ stack = <<>>
    /\ outcome = Running
    /\ done_frame = NoFrame
    /\ visits = <<>>
    /\ uses = <<>>

(***************************************************************************)
(* SpecGrid: a row of cells at elevation 0 or 1 holding blocks of every    *)
(* kind the engine tells apart, and one call of update or is_powered.      *)
(***************************************************************************)
RowLen == 3

Y1 == U32(1)

RowCells(y) == {BlockPos(x, y, 0) : x \in 0..(RowLen - 1)}

GridPalette ==
    {Air, Solid(U32(245)), RedstoneLamp(FALSE), RedstoneTorch(TRUE),
     RedstoneRepeater(1, "West", FALSE, FALSE),
     RedstoneRepeater(1, "West", FALSE, TRUE),
     RedstoneWire("None", "None", "Side", "Side", 15)}

GridCalls(cells) ==
    {UpdateCall(p, f) : p \in cells, f \in BOOLEAN} \cup {IsPoweredCall(p) : p \in cells}

InitGrid ==
    \E y \in {U32Zero, Y1} :
        \E plot \in [RowCells(y) -> GridPalette] :
            \E call \in GridCalls(RowCells(y)) :
                InitEngine(BOOLEAN, plot, call)

SpecGrid == InitGrid /\ [][NextEngine]_vars

(***************************************************************************)
(* Claims about single calls of update and is_powered (SpecGrid)           *)
(***************************************************************************)
\* the calls update(pos) makes when it goes on: the six face-adjacent
\* positions, none of them reached by overflow, each with force = false
SixNeighbourCalls(pos, called) ==
    /\ Len(called) = 6
    /\ \A i \in 1..6 :
        /\ ~offsetOverflows(pos, FaceOrder[i])
        /\ called[i] = [pos |-> offset(pos, FaceOrder[i]), force |-> FALSE]

\* C1: a call of update that has reached set_block invokes update on the
\* six face-adjacent neighbours, each with force = false, if set_block
\* reported a change or force is true, and on no neighbour otherwise.
C1_NeighboursIffChangedOrForce ==
    (done_frame.fn = "update" /\ done_frame.set) =>
        IF done_frame.changed \/ done_frame.force
        THEN SixNeighbourCalls(done_frame.pos, done_frame.called)
        ELSE done_frame.called = <<>>

\* C6: is_powered on a Solid or RedstoneLamp block returns true iff one of
\* the six neighbours is powered (its is_powered call returned true) or
\* powers the position (is_powering of the neighbour, with the face the
\* code passes for a neighbour on that side); on every other kind it
\* returns false.  Stated for the positions whose six offsets exist.
C6_PoweredIffNeighbour ==
    (outcome.status = "returned" /\ done_frame.fn = "is_powered"
        /\ ~SixOverflow(done_frame.pos)) =>
        outcome.value =
            IF done_frame.self.kind \in {"Solid", "RedstoneLamp"}
            THEN \/ done_frame.sub
                 \/ \E i \in 1..6 :
                        is_powering(store, offset(done_frame.pos, FaceOrder[i]),
                                    FaceOrder[i])
            ELSE FALSE

\* the store lies at elevation 1 or above
AboveFloor(plot) == \A p \in DOMAIN plot : p.y # U32Zero

\* the is_powered frames of a call stack, outermost first
IsPoweredFrames(s) == SelectSeq(s, LAMBDA f : f.fn = "is_powered")

\* is_powered is running on position pos while an enclosing is_powered call
\* on pos waits for it: is_powered writes nothing, so the inner call
\* repeats the outer one and the recursion has no end
ReEntered(s) ==
    \E i, j \in 1..Len(s) : i < j /\ s[i].pos = s[j].pos

\* C11: on a store at y >= 1 every is_powered query terminates, the one a
\* caller makes as well as the one update makes for a repeater's input
\* block: the recursion through the Solid / RedstoneLamp neighbours never
\* comes back to a position it is still working on, and never outgrows the
\* call stack.
C11_IsPoweredTerminates ==
    AboveFloor(store0) =>
        /\ ~ReEntered(IsPoweredFrames(stack))
        /\ (done_frame # NoFrame /\ done_frame.fn = "is_powered")
               => outcome # StackOverflow

(***************************************************************************)
(* SpecLine: a standing torch at elevation 1 and, in front of it, a        *)
(* straight line of n repeaters facing away from it; everything else Air.  *)
(* The torch's lit flag has just been set and the caller makes             *)
(* update(torch position, force = true).  The call runs until it returns:  *)
(* nothing else is scheduled, hence the weak fairness.                     *)
(***************************************************************************)
MaxN == 3

RECURSIVE Shift(_, _, _)
\* the position i steps from pos through `face`
Shift(pos, face, i) == IF i = 0 THEN pos ELSE Shift(offset(pos, face), face, i - 1)

TorchPos == BlockPos(0, Y1, 0)

\* the i-th repeater of a line facing `facing`: its input face looks at the
\* (i-1)-th, the first one's at the torch
LinePos(facing, i) == Shift(TorchPos, facing, i)

LinePlot(n, facing, lit, delay, locked, flags) ==
    [p \in {LinePos(facing, i) : i \in 0..n} |->
        IF p = TorchPos THEN RedstoneTorch(lit)
        ELSE LET i == CHOOSE j \in 1..n : LinePos(facing, j) = p
             IN  RedstoneRepeater(delay, facing, locked, flags[i])]

InitLine ==
    \E n \in 1..MaxN, facing \in BlockDirection, lit \in BOOLEAN,
       delay \in {1, 4}, locked \in BOOLEAN :
        \E flags \in [1..n -> BOOLEAN] :
            InitEngine(BOOLEAN, LinePlot(n, facing, lit, delay, locked, flags),
                       UpdateCall(TorchPos, TRUE))

SpecLine == InitLine /\ [][NextEngine]_vars /\ WF_vars(NextEngine)

\* the repeaters of the plot, and the torch's flag
RepeaterCells(plot) == {p \in DOMAIN plot : plot[p].kind = "RedstoneRepeater"}

TorchLit(plot) == plot[TorchPos].lit

\* the line was settled for the torch's previous state: every repeater's
\* powered flag is the negation of the flag the torch has now
SettledBeforeToggle(plot) ==
    \A p \in RepeaterCells(plot) : plot[p].powered = ~TorchLit(plot)

\* C2: the cascade of update(torch, force = true) on a line of repeaters
\* returns, and update is never invoked more than 6 times on one position
\* (whatever the length of the line).
C2_LineCascadeTerminates ==
    /\ [](\A p \in DOMAIN visits : visits[p] <= 6)
    /\ <>(outcome.status = "returned")

\* C2 witness: the cascade over a line of more than one repeater, settled
\* before the toggle, has returned; all repeaters changed and one position
\* was updated more than once.
C2_Witness ==
    /\ outcome.status = "returned"
    /\ Cardinality(RepeaterCells(store0)) >= 2
    /\ SettledBeforeToggle(store0)
    /\ \A p \in RepeaterCells(store0) : store[p] # store0[p]
    /\ \E p \in DOMAIN visits : visits[p] >= 2

\* every repeater's flag is the torch's flag, and is what its input gives
AllRepeatersFollowTorch ==
    \A p \in RepeaterCells(store) :
        /\ store[p].powered = TorchLit(store)
        /\ store[p].powered =
              is_powering(store, offset(p, input_face(store[p].facing)),
                          block_face(store[p].facing))

\* C3 as stated: once the cascade has finished, every repeater of the line
\* has powered equal to the torch's lit flag.
C3_NoStaleRepeater ==
    outcome.status = "returned" => AllRepeatersFollowTorch

\* C3 amended: if the line was settled for the torch's previous state when
\* the torch was toggled, then once the cascade has finished every repeater
\* has powered equal to the torch's lit flag, which is what the block behind
\* it gives it.
C3_NoStaleRepeaterAfterToggle ==
    (outcome.status = "returned" /\ SettledBeforeToggle(store0))
        => AllRepeatersFollowTorch

\* C3 witness: a lit torch, a settled line of more than one repeater, the
\* cascade finished and every repeater now powered.
C3_Witness ==
    /\ outcome.status = "returned"
    /\ SettledBeforeToggle(store0)
    /\ TorchLit(store0)
    /\ Cardinality(RepeaterCells(store0)) >= 2
    /\ \A p \in RepeaterCells(store) : store[p].powered

(***************************************************************************)
(* SpecUse: on_use called on the block stored at one position, again and   *)
(* again.                                                                  *)
(***************************************************************************)
MaxUses == 4

\* RepeaterCycle without the wrap of lines 365-367
RepeaterCycleNoWrap(delay) == delay + 1

\* lines 364-367: the next delay
RepeaterCycle(delay) == IF delay + 1 > 4 THEN delay + 1 - 4 ELSE delay + 1

\* Block::on_use: the block written, if any
on_use_block(self) ==
    CASE self.kind = "RedstoneRepeater"   ->
            [self EXCEPT !.delay = RepeaterCycle(self.delay)]
      [] self.kind = "RedstoneComparator" -> [self EXCEPT !.mode = flip(self.mode)]
      [] OTHER                            -> self

\* Block::on_use: the ActionResult
on_use_result(self) ==
    IF self.kind \in {"RedstoneRepeater", "RedstoneComparator"} THEN "Success" ELSE "Pass"

UsePos == BlockPos(0, Y1, 0)

UsedBlocks ==
    Repeaters \cup Comparators \cup Torches \cup WallTorches \cup Lamps \cup OpaqueBlocks
        \cup {Air, RedstoneWire("Side", "None", "Up", "None", 7)}

InitUse ==
    /\ overflow_checks \in BOOLEAN
    /\ cin = [op |-> "none"]
    /\ cout = <<>>
    /\ errlog = <<>>
    /\ \E b \in UsedBlocks : store = [p \in {UsePos} |-> b]
    /\ store0 = store
    /\ todo = <<>>
    /\ stack = <<>>
    /\ outcome = Running
    /\ done_frame = NoFrame
    /\ visits = <<>>
    /\ uses = <<>>

\* on_use on the block currently stored at UsePos
OnUse ==
    /\ Len(uses) < MaxUses
    /\ LET self == get_block(store, UsePos) IN
        /\ store' = IF on_use_result(self) = "Success"
                    THEN set_block(store, UsePos, on_use_block(self))
                    ELSE store
        /\ uses' = Append(uses, on_use_result(self))
    /\ UNCHANGED <<overflow_checks, codec_vars, store0, todo, stack, outcome,
                   done_frame, visits>>

NextUse == OnUse

SpecUse == InitUse /\ [][NextUse]_vars

RECURSIVE FlipTimes(_, _)
FlipTimes(m, k) == IF k = 0 THEN m ELSE FlipTimes(flip(m), k - 1)

\* C7: k on_use calls on a repeater leave delay stepped k times round
\* 1->2->3->4->1 and nothing else changed, so four calls restore the block;
\* on a comparator they flip the mode k times, so two calls restore it; each
\* of these calls returns Success.  On any other kind every call returns
\* Pass and the store is unchanged.
C7_OnUseCycles ==
    LET orig == store0[UsePos]
        now  == get_block(store, UsePos)
        k    == Len(uses)
    IN  CASE orig.kind = "RedstoneRepeater" ->
                /\ now = [orig EXCEPT !.delay = ((orig.delay - 1 + k) % 4) + 1]
                /\ k = 4 => now = orig
                /\ \A i \in 1..k : uses[i] = "Success"
          [] orig.kind = "RedstoneComparator" ->
                /\ now = [orig EXCEPT !.mode = FlipTimes(orig.mode, k)]
                /\ k = 2 => now = orig
                /\ \A i \in 1..k : uses[i] = "Success"
          [] OTHER ->
                /\ store = store0
                /\ \A i \in 1..k : uses[i] = "Pass"

\* C7 witness: four on_use calls on a locked, powered repeater of delay 3
\* have brought it back to itself.
C7_Witness ==
    /\ store0[UsePos] = RedstoneRepeater(3, "North", TRUE, TRUE)
    /\ Len(uses) = 4
    /\ store = store0

(***************************************************************************)
(* SpecLoop: repeaters and comparators on the four cells of a square at    *)
(* elevation 1, a power source, a wire or Air beside it, and no Solid or   *)
(* RedstoneLamp anywhere; the caller makes update(pos, force = true).      *)
(*   closed loops : every cell faces the next cell round the square        *)
(*   lines        : four repeaters facing along one axis, so that two of   *)
(*                  them can stand one behind the other                    *)
(* The build is the one with overflow checks: that no call panics shows    *)
(* that no offset overflows here, so the wrapping build runs the same.     *)
(***************************************************************************)
\* the square, clockwise from its north-west corner
Ring == <<BlockPos(0, Y1, 0), BlockPos(1, Y1, 0), BlockPos(1, Y1, 1), BlockPos(0, Y1, 1)>>

RingCells == {Ring[i] : i \in 1..4}

\* the facing that points from each cell to the next, round either way
RingFacings == {<<"East", "South", "West", "North">>, <<"South", "West", "North", "East">>}

FeederPos == BlockPos(-1, Y1, 0)

Feeders == {Air, RedstoneTorch(TRUE), RedstoneWire("None", "None", "Side", "Side", 15)}

LoopComponent(comparator, facing, powered) ==
    IF comparator THEN RedstoneComparator(facing, "Compare", powered)
    ELSE RedstoneRepeater(1, facing, FALSE, powered)

LoopPlot(facings, comparator, powered, feeder) ==
    [p \in RingCells \cup {FeederPos} |->
        IF p = FeederPos THEN feeder
        ELSE LET i == CHOOSE j \in 1..4 : Ring[j] = p
             IN  LoopComponent(comparator[i], facings[i], powered[i])]

ClosedLoop(plot) ==
    \E facings \in RingFacings :
        \A i \in 1..4 :
            /\ plot[Ring[i]].kind \in {"RedstoneRepeater", "RedstoneComparator"}
            /\ plot[Ring[i]].facing = facings[i]

\* which cells hold a comparator: none, all, every other one
ComparatorPatterns ==
    {<<FALSE, FALSE, FALSE, FALSE>>, <<TRUE, TRUE, TRUE, TRUE>>,
     <<TRUE, FALSE, TRUE, FALSE>>, <<FALSE, TRUE, FALSE, TRUE>>}

\* facings that put two cells of the square in one line
AxisFacings == [1..4 -> {"East", "West"}] \cup [1..4 -> {"North", "South"}]

InitLoop ==
    \/ \E facings \in RingFacings, feeder \in Feeders :
         \E comparator \in ComparatorPatterns, powered \in [1..4 -> BOOLEAN] :
           \E p \in RingCells \cup {FeederPos} :
              InitEngine({TRUE}, LoopPlot(facings, comparator, powered, feeder),
                         UpdateCall(p, TRUE))
    \/ \E facings \in AxisFacings, powered \in [1..4 -> BOOLEAN] :
         \E p \in RingCells :
              InitEngine({TRUE}, LoopPlot(facings, [i \in 1..4 |-> FALSE], powered, Air),
                         UpdateCall(p, TRUE))

SpecLoop == InitLoop /\ [][NextEngine]_vars /\ WF_vars(NextEngine)

====
